---- MODULE Spec2Model ----
(***************************************************************************)
(* Model of src/transcribe.ts: the TranscriptionEngine dispatcher and its  *)
(* three backend adapters (Swiftink create-then-poll, Whisper ASR one-shot *)
(* HTTP, Azure streaming session).                                         *)
(*                                                                         *)
(* JavaScript strings are modelled as sequences of one-character strings,  *)
(* so that concatenation, trim and JSON serialisation are computed.        *)
(* A promise is a record [state, value, reason]: value is meaningful when  *)
(* state = "fulfilled", reason when state = "rejected".                    *)
(***************************************************************************)
EXTENDS Integers, Sequences, FiniteSets, TLC

VARIABLES
    settings,        \* this.settings (the fields the control flow reads)
    dispatched,      \* ghost: what this.settings held when getTranscription was called
    pc,              \* position of the single getTranscription call
    invoked,         \* ghost: how many times each adapter body was entered
    adapterPromise,  \* the promise returned by the selected adapter
    callerPromise,   \* the promise getTranscription returns to its caller
    tries,           \* getTranscriptionSwiftink: let tries
    polls,           \* ghost: number of status GETs issued
    sleeps,          \* ghost: number of sleep(sleep_time) calls
    sleptMs,         \* ghost: sum of the durations passed to sleep
    lastPoll,        \* ghost: the answer to the latest status GET
    terminalBefore,  \* ghost: a status GET before the latest one was answered with a terminal status
    terminalInBudget, \* ghost: one of the first max_tries status GETs was answered with a terminal status
    lastBody,        \* ghost: the body the Whisper ASR remote answered with
    text,            \* getTranscriptionAzure: let text
    started,         \* recognizer.startContinuousRecognitionAsync was called
    stopRequests,    \* number of recognizer.stopContinuousRecognitionAsync calls
    events,          \* ghost: provider events delivered so far, in order
    settledBy,       \* ghost: index in events of the event that settled the promise (0: none)
    stopAtSettle,    \* ghost: the settling handler also requested the stop
    settleOps,       \* ghost: the calls the settling handler made, in order
    fmt,             \* a call of segmentsToTimestampedString: its arguments and result
    engineField,     \* this.transcriptionEngine of an engine that serves several calls
    calls,           \* the calls of getTranscription in flight: locals and promises of each
    alone,           \* ghost: each of these calls as it runs on an engine of its own
    diag             \* the diagnostics settings each call runs under

vars == <<settings, dispatched, pc, invoked, adapterPromise, callerPromise, tries, polls,
          sleeps, sleptMs, lastPoll, terminalBefore, terminalInBudget,
          lastBody, text, started, stopRequests, events, settledBy, stopAtSettle,
          settleOps, fmt, engineField, calls, alone, diag>>

swiftinkVars == <<tries, polls, sleeps, sleptMs, lastPoll, terminalBefore, terminalInBudget>>
\* the state outside the single getTranscription call
twoVars == <<engineField, calls, alone, diag>>

auxVars == <<fmt, twoVars>>

azureVars == <<text, started, stopRequests, events, settledBy, stopAtSettle, settleOps>>

----------------------------------------------------------------------------
(* Bounds of the model *)

\* number of provider events delivered to one streaming session
MaxEvents == 4

\* number of segments passed to one call of the segment formatter
MaxSegments == 2

\* number of status GETs answered "not finished yet" to each of two
\* concurrent calls
MaxPollsTwo == 2

\* number of provider events delivered to each of two concurrent calls
MaxEventsTwo == 2

\* number of provider events delivered to each of two runs that differ in
\* their diagnostics settings
MaxEventsDiag == 3

----------------------------------------------------------------------------
(* Strings *)

Whitespace == {" ", "\t", "\n"}

RECURSIVE TrimStart(_)
TrimStart(s) ==
    IF s = <<>> THEN <<>>
    ELSE IF Head(s) \in Whitespace THEN TrimStart(Tail(s)) ELSE s

RECURSIVE TrimEnd(_)
TrimEnd(s) ==
    IF s = <<>> THEN <<>>
    ELSE IF s[Len(s)] \in Whitespace THEN TrimEnd(SubSeq(s, 1, Len(s) - 1)) ELSE s

\* String.prototype.trim
Trim(s) == TrimEnd(TrimStart(s))

\* JSON.stringify({text: t}) for a t without characters that need escaping
JSONStringify(t) ==
    <<"{", "\"", "t", "e", "x", "t", "\"", ":", "\"">> \o t \o <<"\"", "}">>

----------------------------------------------------------------------------
(* Promises *)

Pending == [state |-> "pending", value |-> <<>>, reason |-> ""]

Fulfilled(v) == [state |-> "fulfilled", value |-> v, reason |-> ""]

Rejected(r) == [state |-> "rejected", value |-> <<>>, reason |-> r]

\* mutant of Resolve: a later resolve overwrites the settled outcome
ResolveOverwrite(p, v) == Fulfilled(v)

\* resolve(v) of a promise executor: a no-op once the promise is settled
Resolve(p, v) == IF p.state = "pending" THEN Fulfilled(v) ELSE p

\* reject(r) of a promise executor: a no-op once the promise is settled
Reject(p, r) == IF p.state = "pending" THEN Rejected(r) ELSE p

----------------------------------------------------------------------------
(* Segment formatter *)

Digit(n) == <<"0", "1", "2", "3", "4", "5", "6", "7", "8", "9">>[n + 1]

Pad2(n) == <<Digit((n \div 10) % 10), Digit(n % 10)>>

\* the local-time value a Date of time value ms shows in a zone whose
\* getTimezoneOffset() is tz minutes
LocalMs(ms, tz) == ms - tz * 60000

\* one token of a date-fns pattern, rendered for the Date of time value ms
FormatToken(tok, ms, tz) ==
    LET l == LocalMs(ms, tz) IN
    CASE tok = "HH" -> Pad2((l \div 3600000) % 24)
      [] tok = "mm" -> Pad2((l \div 60000) % 60)
      [] tok = "ss" -> Pad2((l \div 1000) % 60)
      [] OTHER -> <<tok>>

\* date-fns format(date, pattern); a pattern is its sequence of tokens
RECURSIVE format(_, _, _)
format(ms, pattern, tz) ==
    IF pattern = <<>> THEN <<>>
    ELSE FormatToken(Head(pattern), ms, tz) \o format(ms, Tail(pattern), tz)

\* One segment's line.  segment.start and segment.end are seconds with two
\* decimals, held here in hundredths of a second.
SegmentString(segment, timestampFormat, tz) ==
    LET start0 == segment.start * 10
        end0 == segment.end * 10
        start == start0 + tz * 60000
        end == end0 + tz * 60000
        start_formatted == format(start, timestampFormat, tz)
        end_formatted == format(end, timestampFormat, tz)
    IN start_formatted \o <<" ", "-", " ">> \o end_formatted \o <<":", " ">>
         \o segment.text \o <<"\n">>

\* mutant of segmentsToTimestampedString: each line is put in front of the
\* lines built so far
RECURSIVE segmentsToTimestampedStringPrepend(_, _, _)
segmentsToTimestampedStringPrepend(segments, timestampFormat, tz) ==
    IF segments = <<>> THEN <<>>
    ELSE segmentsToTimestampedStringPrepend(Tail(segments), timestampFormat, tz)
           \o SegmentString(Head(segments), timestampFormat, tz)

RECURSIVE segmentsToTimestampedString(_, _, _)
segmentsToTimestampedString(segments, timestampFormat, tz) ==
    IF segments = <<>> THEN <<>>
    ELSE SegmentString(Head(segments), timestampFormat, tz)
           \o segmentsToTimestampedString(Tail(segments), timestampFormat, tz)

----------------------------------------------------------------------------
(* Configuration and the backend registry *)

\* the keys of transcription_engines
RegisteredEngines == {"swiftink", "whisper_asr", "azure_speech_service"}

\* a property every object literal inherits from Object.prototype
InheritedNames == {"toString"}

\* values settings.transcription_engine is given
EngineNames == RegisteredEngines \cup InheritedNames \cup {"unknown_engine"}

TimestampFormats == { <<"HH", ":", "mm", ":", "ss">>, <<"mm", ":", "ss">> }

\* values of Date.prototype.getTimezoneOffset in the host
TimezoneOffsets == {0, -120}

\* mutant of transcription_engines: an unregistered name falls back to the
\* first registered adapter
transcription_engines_fallback(name) ==
    IF name \in RegisteredEngines THEN [kind |-> "adapter", of |-> name]
    ELSE [kind |-> "adapter", of |-> "swiftink"]

\* this.transcription_engines[name]: the adapter registered under name, a
\* function inherited from Object.prototype, or undefined
transcription_engines(name) ==
    IF name \in RegisteredEngines THEN [kind |-> "adapter", of |-> name]
    ELSE IF name \in InheritedNames THEN [kind |-> "inherited", of |-> name]
    ELSE [kind |-> "undefined", of |-> name]

\* where the body of each adapter starts
EntryPoint(name) ==
    CASE name = "swiftink" -> "swiftink_create"
      [] name = "whisper_asr" -> "whisper_request"
      [] name = "azure_speech_service" -> "azure_setup"

TypeErrorNotFunction == "TypeError: this.transcriptionEngine is not a function"
TypeErrorNoThen == "TypeError: this.transcriptionEngine(...).then is not a function"

----------------------------------------------------------------------------
(* Calls of the segment formatter *)

\* segment.text of the segments the formatter is called with
SegmentTexts == {<<"h", "i">>, <<"o", "k">>, <<>>, <<"a", "\n", "b">>}

\* the segments the formatter is called with: start and end in hundredths
\* of a second
Segments == [start : {0, 150}, end : {150, 366100}, text : SegmentTexts]

RECURSIVE SeqsUpTo(_, _)
SeqsUpTo(S, n) ==
    IF n = 0 THEN {<<>>}
    ELSE LET shorter == SeqsUpTo(S, n - 1)
         IN shorter \cup {Append(q, x) : q \in shorter, x \in S}

NoFormatCall ==
    [pc |-> "idle", segments |-> <<>>, timestampFormat |-> <<>>, tz |-> 0,
     transcription |-> <<>>]

FormatCalls ==
    [pc : {"call"}, segments : SeqsUpTo(Segments, MaxSegments),
     timestampFormat : TimestampFormats, tz : TimezoneOffsets,
     transcription : {<<>>}]

----------------------------------------------------------------------------
(* Remote answers of the Swiftink API *)

Undefined == [defined |-> FALSE, v |-> <<>>]

Some(x) == [defined |-> TRUE, v |-> x]

Hi == <<"h", "i">>
Ok == <<"o", "k">>

Transcripts == {Hi, Ok}

\* text_segments of a transcript: start and end in hundredths of a second
SegmentLists ==
    { <<>>,
      << [start |-> 0, end |-> 150, text |-> Hi],
         [start |-> 150, end |-> 366100, text |-> Ok] >> }

NonTerminalStatuses == {"queued", "processing"}

TerminalStatuses == {"complete", "failed", "validation_failed"}

\* bodies of GET /transcripts/{id}: text and text_segments are optional
StatusResponses ==
    [status : NonTerminalStatuses \cup {"failed", "validation_failed"},
     text : {Undefined}, text_segments : {Undefined}]
    \cup
    [status : {"complete"},
     text : {Undefined} \cup {Some(t) : t \in Transcripts},
     text_segments : {Undefined} \cup {Some(g) : g \in SegmentLists}]

NoResponse == [status |-> "none", text |-> Undefined, text_segments |-> Undefined]

TransportError == "Error: net::ERR_FAILED"

----------------------------------------------------------------------------
(* getTranscriptionSwiftink *)

max_tries == 200

sleep_time == 3000

TookTooLong == "Swiftink took too long to transcribe the file"
FailedToTranscribe == "Swiftink failed to transcribe the file"
InvalidFile == "Swiftink has detected an invalid file"

\* mutant of PollStep: the wait grows with the number of tries
PollStepBackoff(transcription, t, cfg, tz) ==
    IF /\ transcription.status = "complete"
       /\ transcription.text_segments.defined
       /\ transcription.text.defined
    THEN [kind |-> "return",
          value |-> IF cfg.timestamps
                    THEN segmentsToTimestampedString(transcription.text_segments.v,
                                                     cfg.timestampFormat, tz)
                    ELSE transcription.text.v,
          reason |-> "", tries |-> t, sleep |-> 0]
    ELSE IF t > max_tries
    THEN [kind |-> "reject", value |-> <<>>, reason |-> TookTooLong,
          tries |-> t, sleep |-> 0]
    ELSE IF transcription.status = "failed"
    THEN [kind |-> "reject", value |-> <<>>, reason |-> FailedToTranscribe,
          tries |-> t, sleep |-> 0]
    ELSE IF transcription.status = "validation_failed"
    THEN [kind |-> "reject", value |-> <<>>, reason |-> InvalidFile,
          tries |-> t, sleep |-> 0]
    ELSE [kind |-> "sleep", value |-> <<>>, reason |-> "",
          tries |-> t + 1, sleep |-> sleep_time * (t + 1)]

\* mutant of PollStep: the two remote-rejection branches carry each other's
\* reason
PollStepSwapped(transcription, t, cfg, tz) ==
    IF /\ transcription.status = "complete"
       /\ transcription.text_segments.defined
       /\ transcription.text.defined
    THEN [kind |-> "return",
          value |-> IF cfg.timestamps
                    THEN segmentsToTimestampedString(transcription.text_segments.v,
                                                     cfg.timestampFormat, tz)
                    ELSE transcription.text.v,
          reason |-> "", tries |-> t, sleep |-> 0]
    ELSE IF t > max_tries
    THEN [kind |-> "reject", value |-> <<>>, reason |-> TookTooLong,
          tries |-> t, sleep |-> 0]
    ELSE IF transcription.status = "failed"
    THEN [kind |-> "reject", value |-> <<>>, reason |-> InvalidFile,
          tries |-> t, sleep |-> 0]
    ELSE IF transcription.status = "validation_failed"
    THEN [kind |-> "reject", value |-> <<>>, reason |-> FailedToTranscribe,
          tries |-> t, sleep |-> 0]
    ELSE [kind |-> "sleep", value |-> <<>>, reason |-> "",
          tries |-> t + 1, sleep |-> sleep_time]

\* mutant of PollStep: the timestamps option is read the wrong way round
PollStepInverted(transcription, t, cfg, tz) ==
    IF /\ transcription.status = "complete"
       /\ transcription.text_segments.defined
       /\ transcription.text.defined
    THEN [kind |-> "return",
          value |-> IF ~cfg.timestamps
                    THEN segmentsToTimestampedString(transcription.text_segments.v,
                                                     cfg.timestampFormat, tz)
                    ELSE transcription.text.v,
          reason |-> "", tries |-> t, sleep |-> 0]
    ELSE IF t > max_tries
    THEN [kind |-> "reject", value |-> <<>>, reason |-> TookTooLong,
          tries |-> t, sleep |-> 0]
    ELSE IF transcription.status = "failed"
    THEN [kind |-> "reject", value |-> <<>>, reason |-> FailedToTranscribe,
          tries |-> t, sleep |-> 0]
    ELSE IF transcription.status = "validation_failed"
    THEN [kind |-> "reject", value |-> <<>>, reason |-> InvalidFile,
          tries |-> t, sleep |-> 0]
    ELSE [kind |-> "sleep", value |-> <<>>, reason |-> "",
          tries |-> t + 1, sleep |-> sleep_time]

\* mutant of PollStep: the try budget is tested one try late
PollStepLateTimeout(transcription, t, cfg, tz) ==
    IF /\ transcription.status = "complete"
       /\ transcription.text_segments.defined
       /\ transcription.text.defined
    THEN [kind |-> "return",
          value |-> IF cfg.timestamps
                    THEN segmentsToTimestampedString(transcription.text_segments.v,
                                                     cfg.timestampFormat, tz)
                    ELSE transcription.text.v,
          reason |-> "", tries |-> t, sleep |-> 0]
    ELSE IF t > max_tries + 1
    THEN [kind |-> "reject", value |-> <<>>, reason |-> TookTooLong,
          tries |-> t, sleep |-> 0]
    ELSE IF transcription.status = "failed"
    THEN [kind |-> "reject", value |-> <<>>, reason |-> FailedToTranscribe,
          tries |-> t, sleep |-> 0]
    ELSE IF transcription.status = "validation_failed"
    THEN [kind |-> "reject", value |-> <<>>, reason |-> InvalidFile,
          tries |-> t, sleep |-> 0]
    ELSE [kind |-> "sleep", value |-> <<>>, reason |-> "",
          tries |-> t + 1, sleep |-> sleep_time]

\* One pass of the body of while (true) after the status GET has answered
\* with transcription: what the pass does (return, reject, or sleep and go
\* round again) and the value of tries it leaves.
PollStep(transcription, t, cfg, tz) ==
    IF /\ transcription.status = "complete"
       /\ transcription.text_segments.defined
       /\ transcription.text.defined
    THEN [kind |-> "return",
          value |-> IF cfg.timestamps
                    THEN segmentsToTimestampedString(transcription.text_segments.v,
                                                     cfg.timestampFormat, tz)
                    ELSE transcription.text.v,
          reason |-> "", tries |-> t, sleep |-> 0]
    ELSE IF t > max_tries
    THEN [kind |-> "reject", value |-> <<>>, reason |-> TookTooLong,
          tries |-> t, sleep |-> 0]
    ELSE IF transcription.status = "failed"
    THEN [kind |-> "reject", value |-> <<>>, reason |-> FailedToTranscribe,
          tries |-> t, sleep |-> 0]
    ELSE IF transcription.status = "validation_failed"
    THEN [kind |-> "reject", value |-> <<>>, reason |-> InvalidFile,
          tries |-> t, sleep |-> 0]
    ELSE [kind |-> "sleep", value |-> <<>>, reason |-> "",
          tries |-> t + 1, sleep |-> sleep_time]

\* getTimezoneOffset is called only when the segments are formatted
ReadsTimezone(transcription, cfg) ==
    /\ transcription.status = "complete"
    /\ transcription.text_segments.defined
    /\ transcription.text.defined
    /\ cfg.timestamps

\* the creation POST answers with the job
SwiftinkCreate ==
    /\ pc = "swiftink_create"
    /\ pc' = "swiftink_poll"
    /\ tries' = 0
    /\ UNCHANGED <<auxVars, dispatched, settings, invoked, adapterPromise, callerPromise, polls, sleeps,
                   sleptMs, lastPoll, terminalBefore, terminalInBudget,
                   lastBody, azureVars>>

\* the creation POST throws: the async function rejects with the error
SwiftinkCreateFails ==
    /\ pc = "swiftink_create"
    /\ adapterPromise' = Rejected(TransportError)
    /\ pc' = "returned"
    /\ UNCHANGED <<auxVars, dispatched, settings, invoked, callerPromise, swiftinkVars, lastBody, azureVars>>

\* the status GET answers and the loop body runs up to its next suspension
SwiftinkPoll ==
    /\ pc = "swiftink_poll"
    /\ \E transcription \in StatusResponses :
       \E tz \in (IF ReadsTimezone(transcription, settings) THEN TimezoneOffsets ELSE {0}) :
         LET step == PollStep(transcription, tries, settings, tz) IN
         /\ polls' = polls + 1
         /\ terminalBefore' = (terminalBefore \/ lastPoll.status \in TerminalStatuses)
         /\ terminalInBudget' =
              (terminalInBudget \/ (polls + 1 <= max_tries
                                      /\ transcription.status \in TerminalStatuses))
         /\ tries' = step.tries
         /\ lastPoll' = transcription
         /\ IF step.kind = "sleep"
            THEN /\ sleeps' = sleeps + 1
                 /\ sleptMs' = sleptMs + step.sleep
                 /\ pc' = "swiftink_sleep"
                 /\ UNCHANGED adapterPromise
            ELSE /\ adapterPromise' = IF step.kind = "return"
                                      THEN Fulfilled(step.value)
                                      ELSE Rejected(step.reason)
                 /\ pc' = "returned"
                 /\ UNCHANGED <<sleeps, sleptMs>>
    /\ UNCHANGED <<auxVars, dispatched, settings, invoked, callerPromise, lastBody, azureVars>>

\* mutant of SwiftinkPollFails: a failed status GET is caught and retried
\* after the usual wait
SwiftinkPollFailsRetry ==
    /\ pc = "swiftink_poll"
    /\ tries <= max_tries
    /\ polls' = polls + 1
    /\ terminalBefore' = (terminalBefore \/ lastPoll.status \in TerminalStatuses)
    /\ lastPoll' = NoResponse
    /\ tries' = tries + 1
    /\ sleeps' = sleeps + 1
    /\ sleptMs' = sleptMs + sleep_time
    /\ pc' = "swiftink_sleep"
    /\ UNCHANGED <<auxVars, dispatched, settings, invoked, adapterPromise, callerPromise,
                   terminalInBudget, lastBody, azureVars>>

\* the status GET throws: the async function rejects with the error
SwiftinkPollFails ==
    /\ pc = "swiftink_poll"
    /\ polls' = polls + 1
    /\ terminalBefore' = (terminalBefore \/ lastPoll.status \in TerminalStatuses)
    /\ lastPoll' = NoResponse
    /\ adapterPromise' = Rejected(TransportError)
    /\ pc' = "returned"
    /\ UNCHANGED <<auxVars, dispatched, settings, invoked, callerPromise, tries, sleeps, sleptMs,
                   terminalInBudget, lastBody, azureVars>>

\* the timer of sleep(sleep_time) fires
SwiftinkWake ==
    /\ pc = "swiftink_sleep"
    /\ pc' = "swiftink_poll"
    /\ UNCHANGED <<auxVars, dispatched, settings, invoked, adapterPromise, callerPromise, swiftinkVars,
                   lastBody, azureVars>>

----------------------------------------------------------------------------
(* getTranscriptionWhisperASR *)

BodyKinds == {"raw", "json"}

\* The RequestUrlResponse of a remote that delivers transcript t as a raw
\* text body or as the text field of a JSON body: response.text is the body
\* as a string in both cases, response.json the parsed body.
RequestUrlResponse(kind, t) ==
    [text |-> Some(IF kind = "raw" THEN t ELSE JSONStringify(t)),
     json |-> IF kind = "json" THEN Some(t) ELSE Undefined]

\* the then-callback of requestUrl(options)
WhisperExtract(response) ==
    IF response.text.defined THEN response.text.v ELSE response.json.v

NoBody == [kind |-> "none", transcript |-> <<>>]

\* the POST answers
WhisperASRResponse ==
    /\ pc = "whisper_request"
    /\ \E kind \in BodyKinds, t \in Transcripts :
         /\ lastBody' = [kind |-> kind, transcript |-> t]
         /\ adapterPromise' = Fulfilled(WhisperExtract(RequestUrlResponse(kind, t)))
    /\ pc' = "returned"
    /\ UNCHANGED <<auxVars, dispatched, settings, invoked, callerPromise, swiftinkVars, azureVars>>

\* readBinary, payloadGenerator or the POST throws: catch rejects with the error
WhisperASRFails ==
    /\ pc = "whisper_request"
    /\ adapterPromise' = Rejected(TransportError)
    /\ pc' = "returned"
    /\ UNCHANGED <<auxVars, dispatched, settings, invoked, callerPromise, swiftinkVars, lastBody, azureVars>>

----------------------------------------------------------------------------
(* getTranscriptionAzure *)

Hello == <<"h", "e", "l", "l", "o">>
World == <<"w", "o", "r", "l", "d">>

\* e.result.text of a recognized event
Fragments == {Hello, World, <<>>, <<" ", "a", " ">>}

\* e.result.reason of a recognized event
ResultReasons == {"RecognizedSpeech", "NoMatch", "Canceled"}

\* e.reason of a canceled event
CancellationReasons == {"Error", "EndOfStream"}

ErrorDetails == {"AuthenticationFailure", "ConnectionFailure"}

RecognizedEvents ==
    [type : {"recognized"}, reason : {"RecognizedSpeech"}, text : Fragments, details : {""}]
    \cup
    [type : {"recognized"}, reason : ResultReasons \ {"RecognizedSpeech"}, text : {<<>>},
     details : {""}]

CanceledEvents ==
    [type : {"canceled"}, reason : {"Error"}, text : {<<>>}, details : ErrorDetails]
    \cup
    [type : {"canceled"}, reason : CancellationReasons \ {"Error"}, text : {<<>>},
     details : {""}]

SessionStoppedEvent == [type |-> "sessionStopped", reason |-> "", text |-> <<>>, details |-> ""]

\* The handlers work on the session: the accumulator text, the promise and
\* the number of stop requests sent to the recognizer; ops lists the calls
\* the running handler has made so far.
Session == [text |-> text, promise |-> adapterPromise, stops |-> stopRequests, ops |-> <<>>]

\* mutant of recognized: the fragments are appended without a separator
recognizedNoSeparator(s, e) ==
    IF e.reason = "RecognizedSpeech"
    THEN [s EXCEPT !.text = s.text \o e.text]
    ELSE IF e.reason = "NoMatch"
    THEN [s EXCEPT !.promise = Resolve(s.promise, Trim(s.text)),
                   !.ops = Append(@, "resolve")]
    ELSE s

\* recognizer.recognized
recognized(s, e) ==
    IF e.reason = "RecognizedSpeech"
    THEN [s EXCEPT !.text = s.text \o <<" ">> \o e.text]
    ELSE IF e.reason = "NoMatch"
    THEN [s EXCEPT !.promise = Resolve(s.promise, Trim(s.text)),
                   !.ops = Append(@, "resolve")]
    ELSE s

\* mutant of canceled: the session is stopped only when the cancellation
\* is not an error
canceledStopUnlessError(s, e) ==
    IF e.reason = "Error"
    THEN [s EXCEPT !.promise = Reject(s.promise, e.details),
                   !.ops = Append(@, "reject")]
    ELSE [s EXCEPT !.stops = s.stops + 1, !.ops = Append(@, "stop")]

\* mutant of canceled: every cancellation rejects, whatever its reason
canceledAlwaysRejects(s, e) ==
    LET s1 == [s EXCEPT !.promise = Reject(s.promise, e.details),
                        !.ops = Append(@, "reject")]
    IN [s1 EXCEPT !.stops = s1.stops + 1, !.ops = Append(@, "stop")]

\* recognizer.canceled
canceled(s, e) ==
    LET s1 == IF e.reason = "Error"
              THEN [s EXCEPT !.promise = Reject(s.promise, e.details),
                             !.ops = Append(@, "reject")]
              ELSE s
    IN [s1 EXCEPT !.stops = s1.stops + 1, !.ops = Append(@, "stop")]

\* recognizer.sessionStopped
sessionStopped(s, e) ==
    LET s1 == [s EXCEPT !.promise = Resolve(s.promise, Trim(s.text)),
                        !.ops = Append(@, "resolve")]
    IN [s1 EXCEPT !.stops = s1.stops + 1, !.ops = Append(@, "stop")]

\* the session after the handler of event e has run
Deliver(s, e) ==
    CASE e.type = "recognized" -> recognized(s, e)
      [] e.type = "canceled" -> canceled(s, e)
      [] e.type = "sessionStopped" -> sessionStopped(s, e)

\* the audio is converted, the recognizer built and recognition started
AzureStart ==
    /\ pc = "azure_setup"
    /\ text' = <<>>
    /\ started' = TRUE
    /\ pc' = "azure_session"
    /\ UNCHANGED <<auxVars, dispatched, settings, invoked, adapterPromise, callerPromise, swiftinkVars,
                   lastBody, stopRequests, events, settledBy, stopAtSettle, settleOps>>

\* readBinary or getWaveBlob throws: the async function rejects with the error
AzureSetupFails ==
    /\ pc = "azure_setup"
    /\ adapterPromise' = Rejected(TransportError)
    /\ pc' = "returned"
    /\ UNCHANGED <<auxVars, dispatched, settings, invoked, callerPromise, swiftinkVars, lastBody, azureVars>>

\* the provider delivers event e and its handler runs
AzureDeliver(e) ==
    /\ pc = "azure_session"
    /\ Len(events) < MaxEvents
    /\ LET s == Deliver(Session, e) IN
         /\ text' = s.text
         /\ adapterPromise' = s.promise
         /\ stopRequests' = s.stops
         /\ events' = Append(events, e)
         /\ IF adapterPromise.state = "pending" /\ s.promise.state # "pending"
            THEN /\ settledBy' = Len(events) + 1
                 /\ stopAtSettle' = (s.stops > stopRequests)
                 /\ settleOps' = s.ops
            ELSE UNCHANGED <<settledBy, stopAtSettle, settleOps>>
    /\ UNCHANGED <<auxVars, dispatched, settings, pc, invoked, callerPromise, swiftinkVars, lastBody, started>>

AzureRecognized == \E e \in RecognizedEvents : AzureDeliver(e)

AzureCanceled == \E e \in CanceledEvents : AzureDeliver(e)

AzureSessionStopped == AzureDeliver(SessionStoppedEvent)

----------------------------------------------------------------------------
(* getTranscription *)

\* mutant of Then: a rejection is swallowed and an empty transcript returned
ThenFallback(p) == IF p.state = "fulfilled" THEN Fulfilled(p.value) ELSE Fulfilled(<<>>)

\* p.then(cb) where cb returns its argument: the value of a fulfilled p,
\* the rejection of a rejected p
Then(p) == IF p.state = "fulfilled" THEN Fulfilled(p.value) ELSE p

\* The synchronous part of getTranscription: the registry lookup and the
\* call of what it found.  Calling undefined, or calling .then on the
\* result of an inherited function, throws a TypeError, which the async
\* function turns into a rejection.
GetTranscription ==
    /\ pc = "start"
    /\ LET engine == transcription_engines(settings.transcription_engine) IN
         IF engine.kind = "adapter"
         THEN /\ invoked' = [invoked EXCEPT ![engine.of] = @ + 1]
              /\ pc' = EntryPoint(engine.of)
              /\ UNCHANGED callerPromise
         ELSE /\ callerPromise' = Rejected(IF engine.kind = "inherited"
                                           THEN TypeErrorNoThen
                                           ELSE TypeErrorNotFunction)
              /\ pc' = "threw"
              /\ UNCHANGED invoked
    /\ dispatched' = settings
    /\ UNCHANGED <<auxVars, settings, adapterPromise, swiftinkVars, lastBody, azureVars>>

\* the then-callback of getTranscription runs once the adapter has settled
GetTranscriptionThen ==
    /\ pc \in {"returned", "azure_session"}
    /\ adapterPromise.state # "pending"
    /\ callerPromise.state = "pending"
    /\ callerPromise' = Then(adapterPromise)
    /\ UNCHANGED <<auxVars, dispatched, settings, pc, invoked, adapterPromise, swiftinkVars, lastBody, azureVars>>

----------------------------------------------------------------------------
(* Specification *)

Settings ==
    [transcription_engine : EngineNames,
     timestamps : BOOLEAN,
     timestampFormat : TimestampFormats]

DefaultSettings ==
    [transcription_engine |-> "swiftink", timestamps |-> FALSE,
     timestampFormat |-> <<"HH", ":", "mm", ":", "ss">>]

\* the values of settings.debug, settings.verbosity and whether the engine
\* was constructed with a status bar
Diags == [debug : BOOLEAN, verbosity : {0, 1}, status_bar : BOOLEAN]

QuietDiag == [debug |-> FALSE, verbosity |-> 0, status_bar |-> FALSE]

LoudDiag == [debug |-> TRUE, verbosity |-> 1, status_bar |-> TRUE]

\* the callers of getTranscription
Calls == {1, 2}

\* this.transcriptionEngine before the first assignment
NoEngine == [kind |-> "undefined", of |-> ""]

\* A call of getTranscription before its first line has run: its position,
\* the backend name and the adapter it was dispatched with, its promises,
\* the locals of the adapters (tries; text), and what it has made observable
\* outside (status GETs, sleeps, stop requests, events handled, console
\* lines, status bar messages, notices).
NewCall ==
    [pc |-> "start", name |-> "", engine |-> NoEngine,
     adapterPromise |-> Pending, callerPromise |-> Pending,
     tries |-> 0, polls |-> 0, sleeps |-> 0,
     text |-> <<>>, stops |-> 0, delivered |-> 0,
     logged |-> 0, displayed |-> 0, notices |-> 0]

\* no call has been made
NoCalls ==
    /\ engineField = NoEngine
    /\ calls = [i \in Calls |-> NewCall]
    /\ alone = [i \in Calls |-> NewCall]
    /\ diag = [i \in Calls |-> QuietDiag]

\* the engine after construction, before getTranscription is called
EngineInit ==
    /\ pc = "start"
    /\ invoked = [n \in RegisteredEngines |-> 0]
    /\ adapterPromise = Pending
    /\ callerPromise = Pending
    /\ tries = 0
    /\ polls = 0
    /\ sleeps = 0
    /\ sleptMs = 0
    /\ lastPoll = NoResponse
    /\ terminalBefore = FALSE
    /\ terminalInBudget = FALSE
    /\ lastBody = NoBody
    /\ text = <<>>
    /\ started = FALSE
    /\ stopRequests = 0
    /\ events = <<>>
    /\ settledBy = 0
    /\ stopAtSettle = FALSE
    /\ settleOps = <<>>

Init ==
    /\ settings \in Settings
    /\ dispatched = settings
    /\ EngineInit
    /\ fmt = NoFormatCall
    /\ NoCalls

Next ==
    \/ GetTranscription
    \/ GetTranscriptionThen
    \/ SwiftinkCreate
    \/ SwiftinkCreateFails
    \/ SwiftinkPoll
    \/ SwiftinkPollFails
    \/ SwiftinkWake
    \/ WhisperASRResponse
    \/ WhisperASRFails
    \/ AzureStart
    \/ AzureSetupFails
    \/ AzureRecognized
    \/ AzureCanceled
    \/ AzureSessionStopped

Spec == Init /\ [][Next]_vars

\* Every request and every timer comes back: the dispatch, the creation
\* POST, each status GET and each sleep eventually complete.
Fairness ==
    /\ WF_vars(GetTranscription)
    /\ WF_vars(GetTranscriptionThen)
    /\ WF_vars(SwiftinkCreate \/ SwiftinkCreateFails)
    /\ WF_vars(SwiftinkPoll \/ SwiftinkPollFails)
    /\ WF_vars(SwiftinkWake)

FairSpec == Spec /\ Fairness

----------------------------------------------------------------------------
(* Specification of a Swiftink request during which the settings change *)

InFlight == pc \in {"swiftink_create", "swiftink_poll", "swiftink_sleep"}

\* The settings tab writes the timestamps options into the settings object
\* the engine holds, while the request is suspended at an await.
ChangeSettings ==
    /\ InFlight
    /\ \E ts \in BOOLEAN, f \in TimestampFormats :
         /\ settings' = [settings EXCEPT !.timestamps = ts, !.timestampFormat = f]
         /\ settings' # settings
    /\ UNCHANGED <<auxVars, dispatched, pc, invoked, adapterPromise, callerPromise,
                   swiftinkVars, lastBody, azureVars>>

InitCfg == Init /\ settings.transcription_engine = "swiftink"

NextCfg ==
    \/ GetTranscription
    \/ GetTranscriptionThen
    \/ SwiftinkCreate
    \/ SwiftinkCreateFails
    \/ SwiftinkPoll
    \/ SwiftinkPollFails
    \/ SwiftinkWake
    \/ ChangeSettings

SpecCfg == InitCfg /\ [][NextCfg]_vars

----------------------------------------------------------------------------
(* One call of getTranscription as a function of the call and its input *)

\* if (this.settings.debug) console.log(...) or console.error(...), n times
Log(c, d, n) == IF d.debug THEN [c EXCEPT !.logged = @ + n] ELSE c

\* if (this.settings.verbosity >= 1): a message on the status bar, or a
\* Notice when the engine has no status bar
Status(c, d) ==
    IF d.verbosity >= 1
    THEN IF d.status_bar THEN [c EXCEPT !.displayed = @ + 1]
         ELSE [c EXCEPT !.notices = @ + 1]
    ELSE c

\* mutant of ReadEngineField: the adapter is called through the field as it
\* was before this call stored its own lookup
ReadEngineFieldStale(before, after) == before

\* this.transcriptionEngine(file): the field is read in the statement after
\* the one that assigns it, without a suspension in between
ReadEngineField(before, after) == after

\* getTranscription up to the call of the adapter; engine is what the call
\* reads from this.transcriptionEngine
CallGetTranscription(c, cfg, d, engine) ==
    LET c1 == [Log(c, d, 1) EXCEPT !.name = cfg.transcription_engine,
                                   !.engine = engine]
    IN IF engine.kind = "adapter"
       THEN [c1 EXCEPT !.pc = EntryPoint(engine.of)]
       ELSE [c1 EXCEPT !.pc = "threw",
                       !.callerPromise = Rejected(IF engine.kind = "inherited"
                                                  THEN TypeErrorNoThen
                                                  ELSE TypeErrorNotFunction)]

CanThen(c) ==
    /\ c.pc \in {"returned", "azure_session"}
    /\ c.adapterPromise.state # "pending"
    /\ c.callerPromise.state = "pending"

\* the then-callback of getTranscription: it runs, and logs, on fulfilment
CallThen(c, d) ==
    LET c1 == IF c.adapterPromise.state = "fulfilled" THEN Log(c, d, 2) ELSE c
    IN [c1 EXCEPT !.callerPromise = Then(c.adapterPromise)]

\* mutant of CallSwiftinkCreate: the status bar is used without the test
\* for null, which throws when the engine has none
CallSwiftinkCreateNoNullTest(c, d) ==
    IF d.verbosity >= 1 /\ ~d.status_bar
    THEN [Log(c, d, 2) EXCEPT !.pc = "returned",
                              !.adapterPromise = Rejected("TypeError: this.status_bar is null")]
    ELSE [Log(Status(Log(c, d, 2), d), d, 1) EXCEPT !.pc = "swiftink_poll", !.tries = 0]

\* getTranscriptionSwiftink from the answer of the creation POST to the
\* first status GET
CallSwiftinkCreate(c, d) ==
    [Log(Status(Log(c, d, 2), d), d, 1) EXCEPT !.pc = "swiftink_poll", !.tries = 0]

CallSwiftinkCreateFails(c) ==
    [c EXCEPT !.pc = "returned", !.adapterPromise = Rejected(TransportError)]

\* one pass of the poll loop after the status GET has answered
CallSwiftinkPoll(c, transcription, cfg, d, tz) ==
    LET step == PollStep(transcription, c.tries, cfg, tz)
        c1 == [Log(c, d, 1) EXCEPT !.polls = @ + 1, !.tries = step.tries]
    IN CASE step.kind = "sleep" ->
              [c1 EXCEPT !.sleeps = @ + 1, !.pc = "swiftink_sleep"]
         [] step.kind = "return" ->
              [Status(Log(c1, d, 1), d) EXCEPT !.pc = "returned",
                                                !.adapterPromise = Fulfilled(step.value)]
         [] step.kind = "reject" ->
              [Log(c1, d, 1) EXCEPT !.pc = "returned",
                                    !.adapterPromise = Rejected(step.reason)]

CallSwiftinkPollFails(c) ==
    [c EXCEPT !.polls = @ + 1, !.pc = "returned",
              !.adapterPromise = Rejected(TransportError)]

CallSwiftinkWake(c) == [c EXCEPT !.pc = "swiftink_poll"]

\* the then-callback of the Whisper ASR POST
CallWhisperASRResponse(c, d, kind, t) ==
    [Log(c, d, 1) EXCEPT !.pc = "returned",
                         !.adapterPromise =
                            Fulfilled(WhisperExtract(RequestUrlResponse(kind, t)))]

\* where a Whisper ASR request fails: reading the file, or the POST
WhisperStages == {"read", "post"}

\* reading the file throws before the POST is made; a failed POST runs the
\* catch-callback, which logs and rejects again
CallWhisperASRFails(c, d, stage) ==
    [(IF stage = "post" THEN Log(c, d, 1) ELSE c)
       EXCEPT !.pc = "returned", !.adapterPromise = Rejected(TransportError)]

CallAzureStart(c) == [c EXCEPT !.pc = "azure_session", !.text = <<>>]

CallAzureSetupFails(c) ==
    [c EXCEPT !.pc = "returned", !.adapterPromise = Rejected(TransportError)]

\* the handler of provider event e runs on the session of call c
CallAzureDeliver(c, e) ==
    LET s == Deliver([text |-> c.text, promise |-> c.adapterPromise,
                      stops |-> c.stops, ops |-> <<>>], e)
    IN [c EXCEPT !.text = s.text, !.adapterPromise = s.promise,
                 !.stops = s.stops, !.delivered = @ + 1]

----------------------------------------------------------------------------
(* Specification of two calls of getTranscription on one engine *)

\* call i and its run on an engine of its own take the same step
TwoUpdate(i, c, a) ==
    /\ calls' = [calls EXCEPT ![i] = c]
    /\ alone' = [alone EXCEPT ![i] = a]

\* the single-call state and the settings
callVars ==
    <<dispatched, pc, invoked, adapterPromise, callerPromise, swiftinkVars, lastBody,
      azureVars, fmt>>

\* The settings tab selects another backend while a call is still to be made.
ChangeBackend ==
    /\ \E i \in Calls : calls[i].pc = "start"
    /\ \E name \in EngineNames :
         /\ name # settings.transcription_engine
         /\ settings' = [settings EXCEPT !.transcription_engine = name]
    /\ UNCHANGED <<callVars, twoVars>>

\* Lines 61 to 64 run without suspension: the lookup is stored in
\* this.transcriptionEngine and the adapter called through the field.
\* The calls are numbered in the order they are made.
TwoGetTranscription(i) ==
    /\ calls[i].pc = "start"
    /\ \A j \in Calls : j < i => calls[j].pc # "start"
    /\ LET lookup == transcription_engines(settings.transcription_engine) IN
         /\ engineField' = lookup
         /\ TwoUpdate(i,
              CallGetTranscription(calls[i], settings, diag[i],
                                   ReadEngineField(engineField, lookup)),
              CallGetTranscription(alone[i], settings, diag[i],
                                   ReadEngineField(NoEngine, lookup)))
    /\ UNCHANGED <<callVars, settings, diag>>

TwoThen(i) ==
    /\ CanThen(calls[i])
    /\ TwoUpdate(i, CallThen(calls[i], diag[i]), CallThen(alone[i], diag[i]))
    /\ UNCHANGED <<callVars, settings, diag, engineField>>

TwoSwiftinkCreate(i) ==
    /\ calls[i].pc = "swiftink_create"
    /\ TwoUpdate(i, CallSwiftinkCreate(calls[i], diag[i]),
                    CallSwiftinkCreate(alone[i], diag[i]))
    /\ UNCHANGED <<callVars, settings, diag, engineField>>

TwoSwiftinkCreateFails(i) ==
    /\ calls[i].pc = "swiftink_create"
    /\ TwoUpdate(i, CallSwiftinkCreateFails(calls[i]), CallSwiftinkCreateFails(alone[i]))
    /\ UNCHANGED <<callVars, settings, diag, engineField>>

TwoSwiftinkPoll(i) ==
    /\ calls[i].pc = "swiftink_poll"
    /\ \E transcription \in StatusResponses :
       \E tz \in (IF ReadsTimezone(transcription, settings) THEN TimezoneOffsets ELSE {0}) :
         /\ PollStep(transcription, calls[i].tries, settings, tz).kind = "sleep" =>
              calls[i].polls < MaxPollsTwo
         /\ TwoUpdate(i,
              CallSwiftinkPoll(calls[i], transcription, settings, diag[i], tz),
              CallSwiftinkPoll(alone[i], transcription, settings, diag[i], tz))
    /\ UNCHANGED <<callVars, settings, diag, engineField>>

TwoSwiftinkPollFails(i) ==
    /\ calls[i].pc = "swiftink_poll"
    /\ TwoUpdate(i, CallSwiftinkPollFails(calls[i]), CallSwiftinkPollFails(alone[i]))
    /\ UNCHANGED <<callVars, settings, diag, engineField>>

TwoSwiftinkWake(i) ==
    /\ calls[i].pc = "swiftink_sleep"
    /\ TwoUpdate(i, CallSwiftinkWake(calls[i]), CallSwiftinkWake(alone[i]))
    /\ UNCHANGED <<callVars, settings, diag, engineField>>

TwoWhisperASRResponse(i) ==
    /\ calls[i].pc = "whisper_request"
    /\ \E kind \in BodyKinds, t \in Transcripts :
         TwoUpdate(i, CallWhisperASRResponse(calls[i], diag[i], kind, t),
                      CallWhisperASRResponse(alone[i], diag[i], kind, t))
    /\ UNCHANGED <<callVars, settings, diag, engineField>>

TwoWhisperASRFails(i) ==
    /\ calls[i].pc = "whisper_request"
    /\ \E stage \in WhisperStages :
         TwoUpdate(i, CallWhisperASRFails(calls[i], diag[i], stage),
                      CallWhisperASRFails(alone[i], diag[i], stage))
    /\ UNCHANGED <<callVars, settings, diag, engineField>>

TwoAzureStart(i) ==
    /\ calls[i].pc = "azure_setup"
    /\ TwoUpdate(i, CallAzureStart(calls[i]), CallAzureStart(alone[i]))
    /\ UNCHANGED <<callVars, settings, diag, engineField>>

TwoAzureSetupFails(i) ==
    /\ calls[i].pc = "azure_setup"
    /\ TwoUpdate(i, CallAzureSetupFails(calls[i]), CallAzureSetupFails(alone[i]))
    /\ UNCHANGED <<callVars, settings, diag, engineField>>

\* the provider events delivered to two concurrent sessions
TwoEvents ==
    {e \in RecognizedEvents \cup CanceledEvents \cup {SessionStoppedEvent} :
       /\ e.reason = "RecognizedSpeech" => e.text \in {Hello, World}
       /\ e.details \in {"", "AuthenticationFailure"}}

TwoAzureDeliver(i) ==
    /\ calls[i].pc = "azure_session"
    /\ calls[i].delivered < MaxEventsTwo
    /\ \E e \in TwoEvents :
         TwoUpdate(i, CallAzureDeliver(calls[i], e), CallAzureDeliver(alone[i], e))
    /\ UNCHANGED <<callVars, settings, diag, engineField>>

\* both calls are made on one engine, which has one settings object; every
\* diagnostic is switched on
InitTwo ==
    /\ settings \in Settings
    /\ settings.timestampFormat = DefaultSettings.timestampFormat
    /\ dispatched = settings
    /\ EngineInit
    /\ fmt = NoFormatCall
    /\ engineField = NoEngine
    /\ calls = [i \in Calls |-> NewCall]
    /\ alone = [i \in Calls |-> NewCall]
    /\ diag = [i \in Calls |-> LoudDiag]

NextTwo ==
    \/ ChangeBackend
    \/ \E i \in Calls : TwoGetTranscription(i)
    \/ \E i \in Calls : TwoThen(i)
    \/ \E i \in Calls : TwoSwiftinkCreate(i)
    \/ \E i \in Calls : TwoSwiftinkCreateFails(i)
    \/ \E i \in Calls : TwoSwiftinkPoll(i)
    \/ \E i \in Calls : TwoSwiftinkPollFails(i)
    \/ \E i \in Calls : TwoSwiftinkWake(i)
    \/ \E i \in Calls : TwoWhisperASRResponse(i)
    \/ \E i \in Calls : TwoWhisperASRFails(i)
    \/ \E i \in Calls : TwoAzureStart(i)
    \/ \E i \in Calls : TwoAzureSetupFails(i)
    \/ \E i \in Calls : TwoAzureDeliver(i)

SpecTwo == InitTwo /\ [][NextTwo]_vars

----------------------------------------------------------------------------
(* Specification of two runs that differ in their diagnostics settings *)

\* Two engines are given the same file and settings apart from debug,
\* verbosity and the status bar; the remote and the provider answer both
\* runs alike, step by step.  calls[1] and calls[2] are the two runs.
DiagUpdate(c1, c2) == calls' = [calls EXCEPT ![1] = c1, ![2] = c2]

DiagGetTranscription ==
    /\ calls[1].pc = "start"
    /\ LET lookup == transcription_engines(settings.transcription_engine) IN
         /\ engineField' = lookup
         /\ DiagUpdate(CallGetTranscription(calls[1], settings, diag[1],
                                            ReadEngineField(NoEngine, lookup)),
                       CallGetTranscription(calls[2], settings, diag[2],
                                            ReadEngineField(NoEngine, lookup)))
    /\ UNCHANGED <<callVars, settings, diag, alone>>

DiagThen ==
    /\ CanThen(calls[1])
    /\ DiagUpdate(CallThen(calls[1], diag[1]),
                  IF CanThen(calls[2]) THEN CallThen(calls[2], diag[2]) ELSE calls[2])
    /\ UNCHANGED <<callVars, settings, diag, alone, engineField>>

DiagSwiftinkCreate ==
    /\ calls[1].pc = "swiftink_create"
    /\ DiagUpdate(CallSwiftinkCreate(calls[1], diag[1]),
                  IF calls[2].pc = "swiftink_create"
                  THEN CallSwiftinkCreate(calls[2], diag[2]) ELSE calls[2])
    /\ UNCHANGED <<callVars, settings, diag, alone, engineField>>

DiagSwiftinkCreateFails ==
    /\ calls[1].pc = "swiftink_create"
    /\ DiagUpdate(CallSwiftinkCreateFails(calls[1]),
                  IF calls[2].pc = "swiftink_create"
                  THEN CallSwiftinkCreateFails(calls[2]) ELSE calls[2])
    /\ UNCHANGED <<callVars, settings, diag, alone, engineField>>

DiagSwiftinkPoll ==
    /\ calls[1].pc = "swiftink_poll"
    /\ \E transcription \in StatusResponses :
       \E tz \in (IF ReadsTimezone(transcription, settings) THEN TimezoneOffsets ELSE {0}) :
         DiagUpdate(CallSwiftinkPoll(calls[1], transcription, settings, diag[1], tz),
                    IF calls[2].pc = "swiftink_poll"
                    THEN CallSwiftinkPoll(calls[2], transcription, settings, diag[2], tz)
                    ELSE calls[2])
    /\ UNCHANGED <<callVars, settings, diag, alone, engineField>>

DiagSwiftinkPollFails ==
    /\ calls[1].pc = "swiftink_poll"
    /\ DiagUpdate(CallSwiftinkPollFails(calls[1]),
                  IF calls[2].pc = "swiftink_poll"
                  THEN CallSwiftinkPollFails(calls[2]) ELSE calls[2])
    /\ UNCHANGED <<callVars, settings, diag, alone, engineField>>

DiagSwiftinkWake ==
    /\ calls[1].pc = "swiftink_sleep"
    /\ DiagUpdate(CallSwiftinkWake(calls[1]),
                  IF calls[2].pc = "swiftink_sleep"
                  THEN CallSwiftinkWake(calls[2]) ELSE calls[2])
    /\ UNCHANGED <<callVars, settings, diag, alone, engineField>>

DiagWhisperASRResponse ==
    /\ calls[1].pc = "whisper_request"
    /\ \E kind \in BodyKinds, t \in Transcripts :
         DiagUpdate(CallWhisperASRResponse(calls[1], diag[1], kind, t),
                    IF calls[2].pc = "whisper_request"
                    THEN CallWhisperASRResponse(calls[2], diag[2], kind, t)
                    ELSE calls[2])
    /\ UNCHANGED <<callVars, settings, diag, alone, engineField>>

DiagWhisperASRFails ==
    /\ calls[1].pc = "whisper_request"
    /\ \E stage \in WhisperStages :
         DiagUpdate(CallWhisperASRFails(calls[1], diag[1], stage),
                    IF calls[2].pc = "whisper_request"
                    THEN CallWhisperASRFails(calls[2], diag[2], stage)
                    ELSE calls[2])
    /\ UNCHANGED <<callVars, settings, diag, alone, engineField>>

DiagAzureStart ==
    /\ calls[1].pc = "azure_setup"
    /\ DiagUpdate(CallAzureStart(calls[1]),
                  IF calls[2].pc = "azure_setup"
                  THEN CallAzureStart(calls[2]) ELSE calls[2])
    /\ UNCHANGED <<callVars, settings, diag, alone, engineField>>

DiagAzureSetupFails ==
    /\ calls[1].pc = "azure_setup"
    /\ DiagUpdate(CallAzureSetupFails(calls[1]),
                  IF calls[2].pc = "azure_setup"
                  THEN CallAzureSetupFails(calls[2]) ELSE calls[2])
    /\ UNCHANGED <<callVars, settings, diag, alone, engineField>>

DiagAzureDeliver ==
    /\ calls[1].pc = "azure_session"
    /\ calls[1].delivered < MaxEventsDiag
    /\ \E e \in RecognizedEvents \cup CanceledEvents \cup {SessionStoppedEvent} :
         DiagUpdate(CallAzureDeliver(calls[1], e),
                    IF calls[2].pc = "azure_session"
                    THEN CallAzureDeliver(calls[2], e) ELSE calls[2])
    /\ UNCHANGED <<callVars, settings, diag, alone, engineField>>

\* the two runs are given any two diagnostics settings
InitDiag ==
    /\ settings \in Settings
    /\ dispatched = settings
    /\ EngineInit
    /\ fmt = NoFormatCall
    /\ engineField = NoEngine
    /\ calls = [i \in Calls |-> NewCall]
    /\ alone = [i \in Calls |-> NewCall]
    /\ diag \in [Calls -> Diags]

NextDiag ==
    \/ DiagGetTranscription
    \/ DiagThen
    \/ DiagSwiftinkCreate
    \/ DiagSwiftinkCreateFails
    \/ DiagSwiftinkPoll
    \/ DiagSwiftinkPollFails
    \/ DiagSwiftinkWake
    \/ DiagWhisperASRResponse
    \/ DiagWhisperASRFails
    \/ DiagAzureStart
    \/ DiagAzureSetupFails
    \/ DiagAzureDeliver

SpecDiag == InitDiag /\ [][NextDiag]_vars

----------------------------------------------------------------------------
(* Specification of the segment formatter alone *)

\* the formatter is called with one of FormatCalls
InitFormat ==
    /\ settings = DefaultSettings
    /\ dispatched = settings
    /\ EngineInit
    /\ fmt \in FormatCalls
    /\ NoCalls

\* segmentsToTimestampedString runs from its first line to its return
FormatSegments ==
    /\ fmt.pc = "call"
    /\ fmt' = [fmt EXCEPT !.pc = "done",
                          !.transcription =
                             segmentsToTimestampedString(fmt.segments, fmt.timestampFormat,
                                                         fmt.tz)]
    /\ UNCHANGED <<twoVars, dispatched, settings, pc, invoked, adapterPromise,
                   callerPromise, swiftinkVars, lastBody, azureVars>>

NextFormat == FormatSegments

SpecFormat == InitFormat /\ [][NextFormat]_vars

----------------------------------------------------------------------------
(* Helpers of the properties *)

Swiftink == settings.transcription_engine = "swiftink"
WhisperASR == settings.transcription_engine = "whisper_asr"
Azure == settings.transcription_engine = "azure_speech_service"

CompleteWithText(r) ==
    r.status = "complete" /\ r.text.defined /\ r.text_segments.defined

RECURSIVE JoinSpace(_)
JoinSpace(fs) ==
    IF fs = <<>> THEN <<>>
    ELSE IF Len(fs) = 1 THEN fs[1]
    ELSE fs[1] \o <<" ">> \o JoinSpace(Tail(fs))

IsSpeech(e) == e.type = "recognized" /\ e.reason = "RecognizedSpeech"

IsTerminalEvent(e) ==
    \/ e.type = "recognized" /\ e.reason = "NoMatch"
    \/ e.type = "sessionStopped"
    \/ e.type = "canceled" /\ e.reason = "Error"

\* the fragments of the recognized-speech events among the first n events
FragmentsBefore(evs, n) ==
    LET speech == SelectSeq(SubSeq(evs, 1, n), IsSpeech)
    IN [i \in 1..Len(speech) |-> speech[i].text]

\* index of the first terminal event, 0 when there is none
FirstTerminal(evs) ==
    IF \E i \in 1..Len(evs) : IsTerminalEvent(evs[i])
    THEN CHOOSE i \in 1..Len(evs) :
           /\ IsTerminalEvent(evs[i])
           /\ \A j \in 1..(i - 1) : ~IsTerminalEvent(evs[j])
    ELSE 0

\* what the n-th event, a terminal one, makes of a pending promise
OutcomeOf(evs, n) ==
    IF evs[n].type = "canceled"
    THEN Rejected(evs[n].details)
    ELSE Fulfilled(Trim(JoinSpace(FragmentsBefore(evs, n))))

----------------------------------------------------------------------------
(* Properties *)

\* C1: Swiftink adapter, timestamps off: when the first k-1 status polls
\* (k in 1..200) return a non-terminal status and the k-th returns complete
\* with text and text_segments, the adapter has issued exactly k polls and
\* k-1 waits of 3000 ms, one between consecutive polls, and resolves with
\* the text of the k-th poll.
C1_ResolvesOnKthPoll ==
    (Swiftink /\ ~settings.timestamps) =>
      /\ (pc \in {"swiftink_poll", "swiftink_sleep"} /\ ~terminalBefore
            /\ lastPoll.status \notin TerminalStatuses)
           => (sleeps = polls /\ sleptMs = 3000 * polls)
      /\ (polls \in 1..200 /\ ~terminalBefore /\ CompleteWithText(lastPoll))
           => /\ pc = "returned"
              /\ adapterPromise = Fulfilled(lastPoll.text.v)
              /\ sleeps = polls - 1
              /\ sleptMs = 3000 * (polls - 1)

C1_Witness ==
    /\ Swiftink /\ ~settings.timestamps
    /\ polls = 200 /\ sleeps = 199 /\ ~terminalBefore
    /\ CompleteWithText(lastPoll)
    /\ adapterPromise = Fulfilled(Ok)

\* C2: Swiftink adapter: when none of the first 200 status polls returns a
\* terminal status, the adapter rejects with the took-too-long reason, never
\* with a remote-rejection reason and never resolves, whatever the later
\* polls return.
C2_TimeoutAfter200Polls ==
    (Swiftink /\ pc = "returned" /\ polls > 200 /\ ~terminalInBudget
       /\ lastPoll # NoResponse)
      => adapterPromise = Rejected(TookTooLong)

\* C3: Swiftink adapter: validation_failed on the first poll rejects after 1
\* poll and 0 waits with the invalid-file reason, failed on the first poll
\* rejects after 1 poll and 0 waits with the failed-to-transcribe reason; the
\* two reasons differ from each other and from the timeout reason.
C3_FirstPollRejection ==
    (Swiftink /\ polls = 1) =>
      /\ lastPoll.status = "validation_failed"
           => /\ pc = "returned" /\ sleeps = 0
              /\ adapterPromise = Rejected(InvalidFile)
              /\ adapterPromise.reason \notin {FailedToTranscribe, TookTooLong}
      /\ lastPoll.status = "failed"
           => /\ pc = "returned" /\ sleeps = 0
              /\ adapterPromise = Rejected(FailedToTranscribe)
              /\ adapterPromise.reason \notin {InvalidFile, TookTooLong}

C3_Witness ==
    /\ Swiftink /\ polls = 1 /\ sleeps = 0
    /\ lastPoll.status = "validation_failed"
    /\ adapterPromise = Rejected(InvalidFile)

\* C4: Whisper ASR adapter: the adapter resolves with transcript T both when
\* the remote delivers T as a raw text body and when it delivers T as the
\* text field of a JSON body.
C4_SameForRawAndJson ==
    (WhisperASR /\ lastBody # NoBody)
      => adapterPromise = Fulfilled(lastBody.transcript)

\* C5: Azure adapter: recognized-speech events f1..fn followed by a
\* session-stopped event resolve the promise to f1..fn joined in arrival
\* order with one space between consecutive fragments, trimmed.
C5_JoinedAndTrimmed ==
    Azure =>
      \A n \in 1..Len(events) :
        (/\ events[n] = SessionStoppedEvent
         /\ \A i \in 1..(n - 1) : IsSpeech(events[i]))
          => adapterPromise = Fulfilled(Trim(JoinSpace(FragmentsBefore(events, n))))

C5_Witness ==
    /\ Azure
    /\ Len(events) = 3
    /\ IsSpeech(events[1]) /\ events[1].text = Hello
    /\ IsSpeech(events[2]) /\ events[2].text = World
    /\ events[3] = SessionStoppedEvent
    /\ adapterPromise = Fulfilled(Hello \o <<" ">> \o World)

\* C6: Dispatcher: with a backend name that is not registered the call ends
\* as a rejected promise; no adapter is executed and the call never resolves.
C6_UnknownBackendRejects ==
    (settings.transcription_engine \notin RegisteredEngines) =>
      /\ \A n \in RegisteredEngines : invoked[n] = 0
      /\ adapterPromise = Pending
      /\ polls = 0 /\ lastBody = NoBody /\ ~started
      /\ callerPromise.state # "fulfilled"
      /\ pc # "start" => callerPromise.state = "rejected"

C6_Witness ==
    /\ settings.transcription_engine = "unknown_engine"
    /\ pc = "threw"
    /\ callerPromise = Rejected(TypeErrorNotFunction)

\* C7: Dispatcher with a registered name: the adapter registered under that
\* name is invoked exactly once and no other adapter is invoked, also after
\* a rejection; the caller's outcome is the adapter's outcome.
C7_OneAdapterOutcomeVerbatim ==
    (settings.transcription_engine \in RegisteredEngines /\ pc # "start") =>
      /\ \A n \in RegisteredEngines :
           invoked[n] = IF n = settings.transcription_engine THEN 1 ELSE 0
      /\ ~Swiftink => polls = 0
      /\ ~WhisperASR => lastBody = NoBody
      /\ ~Azure => (~started /\ events = <<>>)
      /\ callerPromise.state # "pending" => callerPromise = adapterPromise

C7_Witness ==
    /\ Swiftink
    /\ invoked["swiftink"] = 1
    /\ adapterPromise = Rejected(FailedToTranscribe)
    /\ callerPromise = Rejected(FailedToTranscribe)

\* C8: Azure adapter: under every ordering of provider events the promise is
\* settled by the first terminal event (NoMatch, session stopped, cancel
\* with error) with the outcome that event produces, and no later event
\* changes the outcome the caller receives.
C8_FirstTerminalEventWins ==
    Azure =>
      LET n == FirstTerminal(events) IN
      IF n = 0
      THEN pc = "azure_session" => (adapterPromise = Pending /\ settledBy = 0)
      ELSE /\ settledBy = n
           /\ adapterPromise = OutcomeOf(events, n)
           /\ callerPromise.state # "pending" => callerPromise = OutcomeOf(events, n)

C8_Witness ==
    /\ Azure
    /\ Len(events) >= 3
    /\ events[1].type = "canceled" /\ events[1].reason = "Error"
    /\ IsSpeech(events[2]) /\ events[2].text = Hello
    /\ events[3] = SessionStoppedEvent
    /\ callerPromise = Rejected(events[1].details)

\* C9: Azure adapter: on every path on which the promise is settled (NoMatch,
\* session stopped, cancel with error) the handler of the settling event
\* also requests that the recognition session be stopped.
C9_StopOnEverySettle ==
    (Azure /\ settledBy > 0) => stopAtSettle

\* C10: Swiftink adapter: once a status poll has returned a terminal status
\* (complete, failed, validation_failed), whatever the rest of the answer, no
\* further status poll is issued.
C10_NoPollAfterTerminal ==
    Swiftink => ~terminalBefore


HiOkTimestamped ==
    <<"0", "0", ":", "0", "0", ":", "0", "0", " ", "-", " ",
      "0", "0", ":", "0", "0", ":", "0", "1", ":", " ", "h", "i", "\n",
      "0", "0", ":", "0", "0", ":", "0", "1", " ", "-", " ",
      "0", "1", ":", "0", "1", ":", "0", "1", ":", " ", "o", "k", "\n">>

\* C11: Swiftink adapter: a poll answered complete with text and segments
\* resolves with the segment formatter's output for the returned segments
\* and the configured pattern when the timestamps option is on, and with
\* the returned raw text when it is off.
C11_TimestampsSelectFormatter ==
    (Swiftink /\ CompleteWithText(lastPoll)) =>
      /\ pc = "returned"
      /\ IF settings.timestamps
         THEN \E tz \in TimezoneOffsets :
                adapterPromise =
                  Fulfilled(segmentsToTimestampedString(lastPoll.text_segments.v,
                                                        settings.timestampFormat, tz))
         ELSE adapterPromise = Fulfilled(lastPoll.text.v)

C11_Witness ==
    /\ Swiftink /\ settings.timestamps
    /\ settings.timestampFormat = <<"HH", ":", "mm", ":", "ss">>
    /\ CompleteWithText(lastPoll)
    /\ Len(lastPoll.text_segments.v) = 2
    /\ adapterPromise = Fulfilled(HiOkTimestamped)

\* C13: Swiftink adapter: on whichever poll it occurs, a poll answered failed
\* rejects with the failed-to-transcribe reason and a poll answered
\* validation_failed rejects with the invalid-file reason; the timeout reason
\* is never reported for such a poll.
C13_RemoteFailureKeepsItsReason ==
    Swiftink =>
      /\ lastPoll.status = "failed"
           => (pc = "returned" /\ adapterPromise = Rejected(FailedToTranscribe))
      /\ lastPoll.status = "validation_failed"
           => (pc = "returned" /\ adapterPromise = Rejected(InvalidFile))

\* C14: Swiftink adapter: a transport failure is never retried.  A failed
\* creation POST rejects with that error after zero polls and zero waits; a
\* failed k-th status GET rejects with that error after exactly k polls;
\* no request follows a failed one.
C14_TransportFailureNotRetried ==
    Swiftink =>
      /\ (polls >= 1 /\ lastPoll = NoResponse)
           => /\ pc = "returned"
              /\ adapterPromise = Rejected(TransportError)
              /\ sleeps = polls - 1
              /\ tries = polls - 1
      /\ (pc = "returned" /\ polls = 0)
           => (adapterPromise = Rejected(TransportError) /\ sleeps = 0)
      /\ adapterPromise = Rejected(TransportError)
           => (pc = "returned" /\ (polls = 0 \/ lastPoll = NoResponse))

C14_Witness ==
    /\ Swiftink
    /\ polls = 3 /\ sleeps = 2
    /\ lastPoll = NoResponse
    /\ callerPromise = Rejected(TransportError)

\* C15: Swiftink adapter: provided every request and every wait returns, the
\* adapter reaches exactly one terminal outcome after a bounded number of
\* steps: tries never exceeds 201, at most 202 status polls and 201 waits
\* are issued, and no poll and no wait follows the terminal outcome.
C15_TerminatesWithinBudget ==
    /\ [](Swiftink => (tries <= 201 /\ polls <= 202 /\ sleeps <= 201))
    /\ [](Swiftink /\ adapterPromise.state # "pending"
            => /\ pc = "returned"
               /\ \/ adapterPromise.state = "fulfilled"
                  \/ adapterPromise.reason \in
                       {FailedToTranscribe, InvalidFile, TookTooLong, TransportError})
    /\ [][adapterPromise.state # "pending"
            => /\ adapterPromise' = adapterPromise
               /\ polls' = polls /\ sleeps' = sleeps /\ tries' = tries]_vars
    /\ (Swiftink /\ pc = "swiftink_create") ~> (adapterPromise.state # "pending")

C15_Witness ==
    /\ Swiftink
    /\ tries = 201 /\ polls = 202 /\ sleeps = 201
    /\ adapterPromise = Rejected(TookTooLong)


IsCancelWithError(e) == e.type = "canceled" /\ e.reason = "Error"

IsCancelWithoutError(e) == e.type = "canceled" /\ e.reason # "Error"

\* C16 as stated: when a cancel-with-error event is the first terminal
\* event, the promise is rejected with that event and the stop request is
\* issued before the rejection is issued to the promise.
C16_StopBeforeReject ==
    Azure =>
      LET n == FirstTerminal(events) IN
      (n > 0 /\ IsCancelWithError(events[n]))
        => /\ adapterPromise = Rejected(events[n].details)
           /\ settleOps = <<"stop", "reject">>

\* C16 as amended: when a cancel-with-error event is the first terminal
\* event, the promise is rejected with that event; the handler calls reject
\* first and requests the stop right after it, so the stop is requested
\* before the rejection reaches the caller.
C16_RejectThenStop ==
    Azure =>
      LET n == FirstTerminal(events) IN
      (n > 0 /\ IsCancelWithError(events[n]))
        => /\ adapterPromise = Rejected(events[n].details)
           /\ settleOps = <<"reject", "stop">>
           /\ stopRequests >= 1
           /\ callerPromise.state # "pending"
                => callerPromise = Rejected(events[n].details)

C16_Witness ==
    /\ Azure
    /\ Len(events) = 2
    /\ IsSpeech(events[1])
    /\ IsCancelWithError(events[2]) /\ events[2].details = "ConnectionFailure"
    /\ settleOps = <<"reject", "stop">>
    /\ callerPromise = Rejected("ConnectionFailure")

\* C20 as stated: a canceled event whose reason is not Error never settles
\* the promise, it only requests the stop: after such an event the promise
\* stays pending unless a later NoMatch or session-stopped event arrives.
C20_PendingUntilNoMatchOrStopped ==
    Azure =>
      \A i \in 1..Len(events) :
        (/\ IsCancelWithoutError(events[i])
         /\ FirstTerminal(SubSeq(events, 1, i)) = 0
         /\ \A j \in (i + 1)..Len(events) :
              ~(events[j].type = "sessionStopped"
                  \/ (events[j].type = "recognized" /\ events[j].reason = "NoMatch")))
          => adapterPromise = Pending

\* C20 as amended: a canceled event whose reason is not Error never settles
\* the promise, it only requests the stop: after such an event the promise
\* stays pending unless a later NoMatch, session-stopped or
\* cancel-with-error event arrives.
C20_CancelWithoutErrorKeepsPending ==
    /\ [](Azure =>
           \A i \in 1..Len(events) :
             (IsCancelWithoutError(events[i]) /\ FirstTerminal(events) = 0)
               => (adapterPromise = Pending /\ callerPromise = Pending
                     /\ stopRequests >= 1))
    /\ [][(Len(events') = Len(events) + 1
             /\ IsCancelWithoutError(events'[Len(events')]))
            => /\ adapterPromise' = adapterPromise
               /\ text' = text
               /\ stopRequests' = stopRequests + 1]_vars

C20_Witness ==
    /\ Azure
    /\ Len(events) = 3
    /\ IsCancelWithoutError(events[1])
    /\ IsSpeech(events[2]) /\ IsSpeech(events[3])
    /\ adapterPromise = Pending
    /\ stopRequests = 1


\* the lines of s: the pieces that end at each newline, and what follows
\* the last newline when that is not empty
RECURSIVE SplitLines(_, _)
SplitLines(s, cur) ==
    IF s = <<>> THEN (IF cur = <<>> THEN <<>> ELSE <<cur>>)
    ELSE IF Head(s) = "\n" THEN <<cur>> \o SplitLines(Tail(s), <<>>)
    ELSE SplitLines(Tail(s), Append(cur, Head(s)))

NewlineTerminated(s) == s = <<>> \/ s[Len(s)] = "\n"

EndsWith(l, t) ==
    /\ Len(l) >= Len(t)
    /\ SubSeq(l, Len(l) - Len(t) + 1, Len(l)) = t

HasNewline(t) == \E i \in 1..Len(t) : t[i] = "\n"

\* the output has one newline-terminated line per segment, the i-th ending
\* with the i-th text
OneLinePerSegment(segments, out) ==
    LET lines == SplitLines(out, <<>>) IN
    /\ NewlineTerminated(out)
    /\ Len(lines) = Len(segments)
    /\ \A i \in 1..Len(segments) :
         /\ i <= Len(lines)
         /\ EndsWith(lines[i], segments[i].text)
    /\ segments = <<>> => out = <<>>

\* C12 as stated: for every segment sequence of length n the formatter's
\* output consists of exactly n newline-terminated lines, the i-th ending
\* with the text of the i-th segment; the empty sequence gives the empty
\* string.
C12_OneLinePerSegment ==
    fmt.pc = "done" => OneLinePerSegment(fmt.segments, fmt.transcription)

\* C12 as amended: the same for every segment sequence whose texts contain
\* no newline character.
C12_OneLinePerSegmentWithoutNewlines ==
    (fmt.pc = "done" /\ \A i \in 1..Len(fmt.segments) : ~HasNewline(fmt.segments[i].text))
      => OneLinePerSegment(fmt.segments, fmt.transcription)

C12_Witness ==
    /\ fmt.pc = "done"
    /\ Len(fmt.segments) = 2
    /\ fmt.segments[1].text = <<"h", "i">>
    /\ fmt.segments[2].text = <<"o", "k">>
    /\ fmt.tz = -120
    /\ Len(SplitLines(fmt.transcription, <<>>)) = 2


\* C18: the options of a request are fixed at dispatch: when the timestamps
\* options are changed while a Swiftink request is suspended in its poll
\* loop, the result is still produced with the values that were in effect
\* when the request was dispatched.
C18_OptionsFixedAtDispatch ==
    (Swiftink /\ pc = "returned" /\ CompleteWithText(lastPoll)) =>
      IF dispatched.timestamps
      THEN \E tz \in TimezoneOffsets :
             adapterPromise =
               Fulfilled(segmentsToTimestampedString(lastPoll.text_segments.v,
                                                     dispatched.timestampFormat, tz))
      ELSE adapterPromise = Fulfilled(lastPoll.text.v)


\* C17: two getTranscription calls on one engine, interleaved at every
\* suspension point: each call invokes the adapter selected by the backend
\* name in effect at its own dispatch, its try counter counts its own
\* sleeps, and its position, locals, promises, polls and outcome are those
\* of the same call run on an engine of its own.
C17_CallsIndependent ==
    \A i \in Calls :
      /\ calls[i] = alone[i]
      /\ calls[i].pc # "start" =>
           calls[i].engine = transcription_engines(calls[i].name)
      /\ calls[i].tries = calls[i].sleeps

\* Both calls are in flight at once, dispatched under different backend
\* names, and each has advanced: one sleeps between two polls, the other
\* has accumulated text in its streaming session.
C17_Witness ==
    /\ calls[1].name = "swiftink"
    /\ calls[1].pc = "swiftink_sleep"
    /\ calls[1].tries = 1
    /\ calls[2].name = "azure_speech_service"
    /\ calls[2].pc = "azure_session"
    /\ calls[2].text # <<>>
    /\ calls[2].adapterPromise.state = "pending"


\* what a run leaves when its console lines, status bar messages and
\* notices are set aside
WithoutDiagnostics(c) == [c EXCEPT !.logged = 0, !.displayed = 0, !.notices = 0]

\* C19: diagnostics are a side channel: two runs given the same backend,
\* options and sequence of remote answers and provider events, and
\* differing only in debug, verbosity and the presence of a status bar,
\* are at every step at the same position with the same promises, the same
\* number of polls and waits and the same accumulated text.
C19_DiagnosticsAreSideChannel ==
    WithoutDiagnostics(calls[1]) = WithoutDiagnostics(calls[2])

\* A quiet run and a run with debug and verbosity on and no status bar have
\* both resolved after at least one wait, and only the second has logged
\* and shown notices.
C19_Witness ==
    /\ diag[1] = QuietDiag
    /\ diag[2] = [debug |-> TRUE, verbosity |-> 1, status_bar |-> FALSE]
    /\ calls[1].callerPromise.state = "fulfilled"
    /\ calls[2].callerPromise.state = "fulfilled"
    /\ calls[1].sleeps >= 1
    /\ calls[1].logged = 0
    /\ calls[2].logged > 0
    /\ calls[2].notices = 2

====
